---- MODULE Spec2Model ----
(***************************************************************************)
(* A model of the jsurl codec of src/src/lib.rs: serialize (a JSON value   *)
(* to URL-safe text) and deserialize (text back to a value).               *)
(*                                                                         *)
(* A character is its Unicode code point (an integer), a string a sequence *)
(* of characters.  A serde_json value is a tagged tuple:                   *)
(*   <<"Null">>  <<"Bool", b>>  <<"Int", n>>  <<"Float", neg, m, e>>       *)
(*   <<"String", s>>  <<"Array", <<v1, ..>>>>                              *)
(*   <<"Object", << <<k1, v1>>, .. >> >>   (insertion order, unique keys)  *)
(* <<"Float", neg, m, e>> is the finite f64 (-1)^neg * m * 10^(-e), with   *)
(* m >= 0 and m not a multiple of 10 unless m = 0 (then e = 0).  serde's   *)
(* Number holds no non-finite f64, so the model has none either.           *)
(*                                                                         *)
(* serialize is a pure function and is an operator; deserialize is run as  *)
(* a state machine, one step per loop iteration of the parser, over a      *)
(* cursor pos into chars and the stack of the callers of parse_one.        *)
(***************************************************************************)
EXTENDS Integers, Sequences, FiniteSets

VARIABLES
    value,      \* the value handed to serialize, or NoValue when a text is parsed
    output,     \* the text serialize returned (<<>> before the call)
    chars,      \* the text handed to deserialize
    pos,        \* the number of characters of chars the cursor has consumed
    pc,         \* the place in the code: "serialize", "parse_one", "array",
                \* "object", "decode", "literal", "trailing", "done"
    stack,      \* the callers waiting for parse_one or decode to return
    buf,        \* the String being accumulated by decode or by a bare literal
    ret,        \* the value parse_one returned to deserialize
    result,     \* what deserialize returned
    lookahead   \* characters beyond the cursor the last step inspected unconsumed

vars == <<value, output, chars, pos, pc, stack, buf, ret, result, lookahead>>

----------------------------------------------------------------------------
(* Characters *)

CP == [tilde |-> 126, lparen |-> 40, rparen |-> 41, quote |-> 39,
       star |-> 42, bang |-> 33, dollar |-> 36, dot |-> 46,
       underscore |-> 95, minus |-> 45, plus |-> 43, zero |-> 48,
       space |-> 32, e |-> 101, E |-> 69, z |-> 122, one |-> 49, x |-> 120]

\* Option<char>::None
None == -1

KwNull == <<110, 117, 108, 108>>
KwTrue == <<116, 114, 117, 101>>
KwFalse == <<102, 97, 108, 115, 101>>

is_ascii_digit(c) == c \in 48..57

is_ascii_alphanumeric(c) == c \in 48..57 \/ c \in 65..90 \/ c \in 97..122

is_ascii_hexdigit(c) == c \in 48..57 \/ c \in 65..70 \/ c \in 97..102

\* from_u32 without its test for surrogates
from_u32_no_surrogate_test(code) == code >= 0 /\ code <= 1114111

\* char::from_u32: Some for a Unicode scalar value, None for a surrogate or
\* a value above 0x10FFFF.
from_u32_is_some(code) ==
    /\ code >= 0
    /\ code <= 1114111
    /\ ~(code \in 55296..57343)

----------------------------------------------------------------------------
(* Formatting: {:02x}, {:04x}, i64 and f64 to_string *)

RECURSIVE Repeat(_, _)
Repeat(c, n) == IF n <= 0 THEN <<>> ELSE <<c>> \o Repeat(c, n - 1)

HexDigitChar(d) == IF d < 10 THEN 48 + d ELSE 87 + d

RECURSIVE HexDigits(_)
HexDigits(n) ==
    IF n < 16 THEN <<HexDigitChar(n)>>
    ELSE HexDigits(n \div 16) \o <<HexDigitChar(n % 16)>>

\* format!("{:0<width>x}", code): lowercase hex, zero-padded to a minimum width
FormatHex(code, width) ==
    LET d == HexDigits(code)
    IN  Repeat(CP.zero, width - Len(d)) \o d

RECURSIVE DecDigits(_)
DecDigits(n) ==
    IF n < 10 THEN <<48 + n>>
    ELSE DecDigits(n \div 10) \o <<48 + (n % 10)>>

\* i64::to_string
IntToString(n) ==
    IF n < 0 THEN <<CP.minus>> \o DecDigits(0 - n) ELSE DecDigits(n)

\* f64::to_string (Display): the shortest decimal that reads back as the same
\* f64, never in exponent notation, without ".0" for an integral value.
FloatToString(neg, m, e) ==
    LET sign == IF neg THEN <<CP.minus>> ELSE <<>>
        d    == DecDigits(m)
    IN  IF e <= 0
        THEN sign \o d \o (IF m = 0 THEN <<>> ELSE Repeat(CP.zero, 0 - e))
        ELSE LET p == Repeat(CP.zero, e + 1 - Len(d)) \o d
                 k == Len(p) - e
             IN  sign \o SubSeq(p, 1, k) \o <<CP.dot>> \o SubSeq(p, k + 1, Len(p))

----------------------------------------------------------------------------
(* Values *)

NoValue == <<"NoValue">>
Null == <<"Null">>
Bool(b) == <<"Bool", b>>
I64(n) == <<"Int", n>>
F64(neg, m, e) == <<"Float", neg, m, e>>
Str(s) == <<"String", s>>
Array(a) == <<"Array", a>>
Object(o) == <<"Object", o>>

\* serde_json::Value's PartialEq: numbers of different kinds differ, f64s
\* compare as f64 (-0.0 == 0.0), objects compare as maps (order ignored).
RECURSIVE ValueEq(_, _)
ValueEq(a, b) ==
    IF a[1] # b[1] THEN FALSE
    ELSE CASE a[1] = "Float" ->
                 /\ a[3] = b[3]
                 /\ a[4] = b[4]
                 /\ (a[2] = b[2] \/ a[3] = 0)
           [] a[1] = "Array" ->
                 /\ Len(a[2]) = Len(b[2])
                 /\ \A i \in 1..Len(a[2]) : ValueEq(a[2][i], b[2][i])
           [] a[1] = "Object" ->
                 /\ Len(a[2]) = Len(b[2])
                 /\ \A i \in 1..Len(a[2]) :
                       \E j \in 1..Len(b[2]) :
                          /\ a[2][i][1] = b[2][j][1]
                          /\ ValueEq(a[2][i][2], b[2][j][2])
           [] OTHER -> a = b

----------------------------------------------------------------------------
(* serialize *)

\* encode_string passing every ASCII character through, not only the
\* alphanumeric ones
EncodeCharAnyAscii(ch) ==
    IF ch < 128 THEN <<ch>> ELSE <<CP.star, CP.star>> \o FormatHex(ch, 4)

EncodeChar(ch) ==
    IF is_ascii_alphanumeric(ch) \/ ch = CP.dot \/ ch = CP.underscore \/ ch = CP.minus
    THEN <<ch>>
    ELSE IF ch = CP.dollar
    THEN <<CP.bang>>
    ELSE IF ch < 256
    THEN <<CP.star>> \o FormatHex(ch, 2)
    ELSE <<CP.star, CP.star>> \o FormatHex(ch, 4)

RECURSIVE encode_string(_)
encode_string(s) ==
    IF s = <<>> THEN <<>> ELSE EncodeChar(Head(s)) \o encode_string(Tail(s))

\* The Array arm without its is_empty test
EmptyArrayBodyNone == <<>>

\* What the Array arm writes between "~(" and ")" for an empty array
EmptyArrayBody == <<CP.tilde>>

\* The separator the Object arm writes before the pair at (0-based) index i
PairSeparator(i) == IF i > 0 THEN <<CP.tilde>> ELSE <<>>

\* The Number arm: as_i64 is Some for an integer (the integers within the
\* bounds all fit i64); otherwise as_f64 is Some, and is_finite holds of every
\* f64 a Number can hold, so the "~null" of the non-finite branch is never
\* written.
NumberText(obj) ==
    IF obj[1] = "Int"
    THEN <<CP.tilde>> \o IntToString(obj[2])
    ELSE <<CP.tilde>> \o FloatToString(obj[2], obj[3], obj[4])

RECURSIVE serialize_helper(_)
serialize_helper(obj) ==
    CASE obj[1] = "Null" -> <<CP.tilde>> \o KwNull
      [] obj[1] = "Bool" -> <<CP.tilde>> \o (IF obj[2] THEN KwTrue ELSE KwFalse)
      [] obj[1] \in {"Int", "Float"} -> NumberText(obj)
      [] obj[1] = "String" -> <<CP.tilde, CP.quote>> \o encode_string(obj[2])
      [] obj[1] = "Array" ->
            LET a == obj[2]
                F[i \in 0..Len(a)] ==
                    IF i = 0 THEN <<>> ELSE F[i - 1] \o serialize_helper(a[i])
            IN  <<CP.tilde, CP.lparen>>
                \o (IF a = <<>> THEN EmptyArrayBody ELSE F[Len(a)])
                \o <<CP.rparen>>
      [] obj[1] = "Object" ->
            LET o == obj[2]
                F[i \in 0..Len(o)] ==
                    IF i = 0 THEN <<>>
                    ELSE F[i - 1] \o PairSeparator(i - 1)
                         \o encode_string(o[i][1]) \o serialize_helper(o[i][2])
            IN  <<CP.tilde, CP.lparen>> \o F[Len(o)] \o <<CP.rparen>>

serialize(obj) == serialize_helper(obj)

----------------------------------------------------------------------------
\* str::parse::<serde_json::Number>: the JSON number grammar over the whole
\* text: an optional "-"; the integer part, "0" or a nonzero digit and any
\* digits; an optional "." and one or more digits; an optional "e" or "E", an
\* optional sign and one or more digits.  A text without fraction and exponent
\* is an integer ("-0" is the f64 -0.0), any other an f64.  Texts within the
\* bounds stay inside the range and precision of i64 and f64, where serde's
\* overflow rules do not apply.

\* The index after the run of ASCII digits of t that starts at index i
RECURSIVE DigitsEnd(_, _)
DigitsEnd(t, i) ==
    IF i <= Len(t) /\ is_ascii_digit(t[i]) THEN DigitsEnd(t, i + 1) ELSE i

\* The number the digits t[i..j-1] write
RECURSIVE DecValue(_, _, _)
DecValue(t, i, j) ==
    IF j <= i THEN 0 ELSE 10 * DecValue(t, i, j - 1) + (t[j - 1] - 48)

RECURSIVE Pow10(_)
Pow10(n) == IF n <= 0 THEN 1 ELSE 10 * Pow10(n - 1)

\* The f64 (-1)^neg * m * 10^(-e) in the model's normal form
RECURSIVE NormalF64(_, _, _)
NormalF64(neg, m, e) ==
    IF m = 0 THEN F64(neg, 0, 0)
    ELSE IF m % 10 = 0 THEN NormalF64(neg, m \div 10, e - 1)
    ELSE F64(neg, m, e)

ParseNumber(t) ==
    LET n       == Len(t)
        neg     == n >= 1 /\ t[1] = CP.minus
        i0      == IF neg THEN 2 ELSE 1
        i1      == DigitsEnd(t, i0)
        intOk   == i1 > i0 /\ (t[i0] = CP.zero => i1 = i0 + 1)
        hasFrac == i1 <= n /\ t[i1] = CP.dot
        f0      == i1 + 1
        f1      == IF hasFrac THEN DigitsEnd(t, f0) ELSE i1
        fracOk  == hasFrac => f1 > f0
        hasExp  == f1 <= n /\ t[f1] \in {CP.e, CP.E}
        s0      == f1 + 1
        hasSign == hasExp /\ s0 <= n /\ t[s0] \in {CP.plus, CP.minus}
        x0      == IF hasSign THEN s0 + 1 ELSE s0
        x1      == IF hasExp THEN DigitsEnd(t, x0) ELSE f1
        expOk   == hasExp => x1 > x0
        ok      == intOk /\ fracOk /\ expOk /\ x1 = n + 1
        intv    == DecValue(t, i0, i1)
        fl      == IF hasFrac THEN f1 - f0 ELSE 0
        fracv   == IF hasFrac THEN DecValue(t, f0, f1) ELSE 0
        expv    == IF hasExp THEN DecValue(t, x0, x1) ELSE 0
        ex      == IF hasSign /\ t[s0] = CP.minus THEN 0 - expv ELSE expv
    IN  IF ~ok THEN [ok |-> FALSE, val |-> Null]
        ELSE IF ~hasFrac /\ ~hasExp
        THEN [ok |-> TRUE,
              val |-> IF neg /\ intv = 0 THEN F64(TRUE, 0, 0)
                      ELSE I64(IF neg THEN 0 - intv ELSE intv)]
        ELSE [ok |-> TRUE,
              val |-> NormalF64(neg, intv * Pow10(fl) + fracv, fl - ex)]

----------------------------------------------------------------------------
(* deserialize: results, the cursor, the callers' frames *)

NoResult ==
    [tag |-> "None", val |-> Null, err |-> "", ch |-> None, expected |-> None,
     text |-> <<>>]
Ok(v) == [NoResult EXCEPT !.tag = "Ok", !.val = v]
\* A panic: Option::unwrap on None
Panic == [NoResult EXCEPT !.tag = "Panic"]
UnexpectedEnd == [NoResult EXCEPT !.tag = "Err", !.err = "UnexpectedEnd"]
UnexpectedCharacter(actual, exp) ==
    [NoResult EXCEPT !.tag = "Err", !.err = "UnexpectedCharacter",
                     !.ch = actual, !.expected = exp]
InvalidValue(t) ==
    [NoResult EXCEPT !.tag = "Err", !.err = "InvalidValue", !.text = t]
InvalidEscapeSequence(t) ==
    [NoResult EXCEPT !.tag = "Err", !.err = "InvalidEscapeSequence", !.text = t]

\* The character n places after the cursor p of s, without consuming any
peekn(s, p, n) == IF p + n < Len(s) THEN s[p + n + 1] ELSE None

peek(s, p) == peekn(s, p, 0)

\* Consumes one character, which must be the expected one
eat(s, p, expected) ==
    LET c == peek(s, p)
    IN  IF c = None THEN UnexpectedEnd
        ELSE IF c = expected THEN Ok(Null)
        ELSE UnexpectedCharacter(c, expected)

\* A caller of parse_one or decode: the array or object being filled (acc,
\* and the key whose value is being parsed), or the String arm
Frame(kind) == [kind |-> kind, acc |-> <<>>, key |-> <<>>]

\* serde_json::Map::insert: a key already present keeps its place and takes
\* the new value
MapInsert(acc, k, v) ==
    IF \E i \in 1..Len(acc) : acc[i][1] = k
    THEN LET i == CHOOSE j \in 1..Len(acc) : acc[j][1] = k
         IN  [acc EXCEPT ![i] = <<k, v>>]
    ELSE Append(acc, <<k, v>>)

\* u32::from_str_radix(t, 16) of a text of hex digits
HexValue(c) ==
    IF c \in 48..57 THEN c - 48 ELSE IF c \in 65..70 THEN c - 55 ELSE c - 87

RECURSIVE from_str_radix(_)
from_str_radix(t) ==
    IF t = <<>> THEN 0
    ELSE 16 * from_str_radix(SubSeq(t, 1, Len(t) - 1)) + HexValue(t[Len(t)])

\* The first character of t that is no hex digit, or None
RECURSIVE FirstNonHex(_)
FirstNonHex(t) ==
    IF t = <<>> THEN None
    ELSE IF ~is_ascii_hexdigit(Head(t)) THEN Head(t)
    ELSE FirstNonHex(Tail(t))

\* One `*` escape of decode with the cursor p of s on the `*`: the hex digits
\* are read first (all n of them, or UnexpectedEnd), then checked one by one,
\* then turned into a char.
DecodeEscape(s, p) ==
    LET wide   == peekn(s, p, 1) = CP.star
        n      == IF wide THEN 4 ELSE 2
        first  == IF wide THEN p + 3 ELSE p + 2
        last   == first + n - 1
        hex    == SubSeq(s, first, last)
        bad    == FirstNonHex(hex)
        code   == from_str_radix(hex)
    IN  IF last > Len(s)
        THEN [res |-> UnexpectedEnd, pos |-> Len(s), ch |-> None]
        ELSE IF bad # None
        THEN [res |-> UnexpectedCharacter(bad, None), pos |-> last, ch |-> None]
        ELSE IF ~from_u32_is_some(code)
        THEN [res |-> InvalidEscapeSequence(hex), pos |-> last, ch |-> None]
        ELSE [res |-> Ok(Null), pos |-> last, ch |-> code]

\* The bare literal arm taking whatever number the text starts with
LiteralValueLenient(t) ==
    IF t = KwNull THEN Ok(Null)
    ELSE IF t = KwTrue THEN Ok(Bool(TRUE))
    ELSE IF t = KwFalse THEN Ok(Bool(FALSE))
    ELSE IF t[1] = CP.minus \/ is_ascii_digit(t[1])
    THEN Ok(I64(DecValue(t, 1, DigitsEnd(t, 1))))
    ELSE InvalidValue(t)

\* What the bare literal t is once its end is reached
LiteralValue(t) ==
    IF t = KwNull THEN Ok(Null)
    ELSE IF t = KwTrue THEN Ok(Bool(TRUE))
    ELSE IF t = KwFalse THEN Ok(Bool(FALSE))
    ELSE IF t[1] = CP.minus \/ is_ascii_digit(t[1])
    THEN LET n == ParseNumber(t)
         IN  IF n.ok THEN Ok(n.val) ELSE InvalidValue(t)
    ELSE InvalidValue(t)

\* The characters that end a String, a key and a bare literal
IsDelimiter(c) == c = CP.tilde \/ c = CP.rparen \/ c = None

----------------------------------------------------------------------------
(* The steps of deserialize *)

\* parse_one returns Ok(v) with the cursor at p to the caller on top of s
Return(v, p, s) ==
    /\ pos' = p
    /\ buf' = <<>>
    /\ IF s = <<>>
       THEN /\ ret' = v
            /\ stack' = s
            /\ pc' = "trailing"
       ELSE /\ ret' = ret
            /\ IF s[Len(s)].kind = "array"
               THEN /\ stack' = [s EXCEPT ![Len(s)].acc = Append(@, v)]
                    /\ pc' = "array"
               ELSE /\ stack' = [s EXCEPT ![Len(s)].acc =
                                     MapInsert(@, s[Len(s)].key, v)]
                    /\ pc' = "object"
    /\ UNCHANGED <<value, output, chars, result>>

\* deserialize ends with r: its Ok, or an error, which `?` hands up through
\* every caller, or a panic
Finish(r, p) ==
    /\ pos' = p
    /\ pc' = "done"
    /\ result' = r
    /\ stack' = <<>>
    /\ buf' = <<>>
    /\ UNCHANGED <<value, output, chars, ret>>

\* A step that stays inside the parser: cursor p, place l, frames s, buffer b
Goto(l, p, s, b) ==
    /\ pos' = p
    /\ pc' = l
    /\ stack' = s
    /\ buf' = b
    /\ UNCHANGED <<value, output, chars, ret, result>>

\* The harness of the tests: serialize a value and hand the text to deserialize
CallSerialize ==
    /\ pc = "serialize"
    /\ output' = serialize(value)
    /\ chars' = serialize(value)
    /\ pc' = "parse_one"
    /\ UNCHANGED <<value, pos, stack, buf, ret, result, lookahead>>

\* parse_one from its entry to its first loop or return
parse_one ==
    /\ pc = "parse_one"
    /\ LET r  == eat(chars, pos, CP.tilde)
           p1 == pos + 1
           c  == peek(chars, p1)
           p2 == p1 + 1
           c2 == peek(chars, p2)
       IN  IF r.tag = "Err"
           THEN /\ Finish(r, IF r.err = "UnexpectedEnd" THEN pos ELSE p1)
                /\ lookahead' = 0
           ELSE IF c = None
           THEN Finish(UnexpectedEnd, p1) /\ lookahead' = 1
           ELSE IF c = CP.lparen
           THEN IF c2 = CP.tilde
                THEN /\ lookahead' = 2
                     /\ IF peekn(chars, p2, 1) = CP.rparen
                        THEN Return(Array(<<>>), p2 + 2, stack)
                        ELSE Goto("array", p2, Append(stack, Frame("array")), <<>>)
                ELSE /\ lookahead' = 1
                     /\ IF c2 = CP.rparen
                        THEN Return(Object(<<>>), p2 + 1, stack)
                        ELSE Goto("decode", p2, Append(stack, Frame("object")), <<>>)
           ELSE IF c = CP.quote
           THEN /\ lookahead' = 1
                /\ Goto("decode", p2, Append(stack, Frame("string")), <<>>)
           ELSE /\ lookahead' = 1
                /\ Goto("literal", p2, stack, <<c>>)

\* One iteration of the array loop
parse_array ==
    /\ pc = "array"
    /\ lookahead' = 1
    /\ IF peek(chars, pos) = CP.rparen
       THEN Return(Array(stack[Len(stack)].acc), pos + 1,
                   SubSeq(stack, 1, Len(stack) - 1))
       ELSE Goto("parse_one", pos, stack, buf)

\* The end of one iteration of the object loop, after map.insert
parse_object ==
    /\ pc = "object"
    /\ lookahead' = 1
    /\ LET c == peek(chars, pos)
       IN  IF c = CP.tilde
           THEN Goto("decode", pos + 1, stack, <<>>)
           ELSE IF c = CP.rparen
           THEN Return(Object(stack[Len(stack)].acc), pos + 1,
                       SubSeq(stack, 1, Len(stack) - 1))
           ELSE IF c = None
           THEN Finish(Panic, pos)
           ELSE Finish(UnexpectedCharacter(c, None), pos)

\* One iteration of the loop of decode
decode ==
    /\ pc = "decode"
    /\ lookahead' = 1
    /\ LET c   == peek(chars, pos)
           top == stack[Len(stack)]
       IN  IF IsDelimiter(c)
           THEN IF top.kind = "string"
                THEN Return(Str(buf), pos, SubSeq(stack, 1, Len(stack) - 1))
                ELSE Goto("parse_one", pos,
                          [stack EXCEPT ![Len(stack)].key = buf], <<>>)
           ELSE IF c = CP.star
           THEN IF peekn(chars, pos, 1) = None
                THEN Finish(UnexpectedEnd, pos + 1)
                ELSE LET d == DecodeEscape(chars, pos)
                     IN  IF d.res.tag = "Err"
                         THEN Finish(d.res, d.pos)
                         ELSE Goto("decode", d.pos, stack, Append(buf, d.ch))
           ELSE IF c = CP.bang
           THEN Goto("decode", pos + 1, stack, Append(buf, CP.dollar))
           ELSE Goto("decode", pos + 1, stack, Append(buf, c))

\* One iteration of the loop of the bare literal arm
parse_literal ==
    /\ pc = "literal"
    /\ lookahead' = 1
    /\ LET c == peek(chars, pos)
       IN  IF IsDelimiter(c)
           THEN LET r == LiteralValue(buf)
                IN  IF r.tag = "Ok"
                    THEN Return(r.val, pos, stack)
                    ELSE Finish(r, pos)
           ELSE Goto("literal", pos + 1, stack, Append(buf, c))

\* deserialize after parse_one returned Ok: the check for trailing input
deserialize ==
    /\ pc = "trailing"
    /\ lookahead' = 0
    /\ IF pos < Len(chars)
       THEN IF pos + 1 < Len(chars)
            THEN Finish(UnexpectedCharacter(chars[pos + 2], None), pos + 2)
            ELSE Finish(Panic, pos + 1)
       ELSE Finish(Ok(ret), pos)

----------------------------------------------------------------------------
(* The values and texts the codec is run on *)

\* The largest number of nodes (scalars, arrays, objects) of a nested value
MaxSize == 3
\* The longest String handed to serialize on its own
MaxStrLen == 2
\* The most tokens appended to a head to make a text for deserialize
MaxTail == 3

\* a $ space ~ U+00E9 U+203C U+1F600
SampleChars == {97, CP.dollar, CP.space, CP.tilde, 233, 8252, 128512}

RECURSIVE StringsUpTo(_)
StringsUpTo(n) ==
    IF n = 0 THEN {<<>>}
    ELSE LET S == StringsUpTo(n - 1)
         IN  S \cup {<<c>> \o t : c \in SampleChars, t \in S}

\* 1.5, -1.5, 1.0, 0.05, 100.0
Scalars ==
    {Null, Bool(TRUE), Bool(FALSE), I64(0), I64(-1), I64(42),
     F64(FALSE, 15, 1), F64(TRUE, 15, 1), F64(FALSE, 1, 0), F64(FALSE, 5, 2),
     F64(FALSE, 1, -2)}
    \cup {Str(t) : t \in StringsUpTo(MaxStrLen)}

Leaves ==
    {Null, Bool(TRUE), I64(1), F64(FALSE, 15, 1), Str(<<>>), Str(<<97, CP.dollar>>)}

Keys == {<<>>, <<CP.e>>, <<CP.dollar>>}

RECURSIVE ValuesOfSize(_), SeqsOfSize(_), PairsOfSize(_)
\* The values of exactly n nodes
ValuesOfSize(n) ==
    IF n = 1 THEN Leaves \cup {Array(<<>>), Object(<<>>)}
    ELSE {Array(a) : a \in SeqsOfSize(n - 1)}
         \cup {Object(o) : o \in PairsOfSize(n - 1)}

\* The sequences of values of n nodes in all
SeqsOfSize(n) ==
    IF n = 0 THEN {<<>>}
    ELSE UNION {{<<v>> \o r : v \in ValuesOfSize(k), r \in SeqsOfSize(n - k)} :
                k \in 1..n}

\* The sequences of key/value pairs, keys distinct, of n nodes in all
PairsOfSize(n) ==
    IF n = 0 THEN {<<>>}
    ELSE UNION {{<< <<kr[1], v>> >> \o kr[2] :
                    kr \in {x \in Keys \X PairsOfSize(n - j) :
                              \A i \in 1..Len(x[2]) : x[2][i][1] # x[1]},
                    v \in ValuesOfSize(j)} :
                j \in 1..n}

Values == Scalars \cup UNION {ValuesOfSize(n) : n \in 1..MaxSize}

\* The texts start with a head and go on with up to MaxTail tokens:
\* heads   (empty)  ~  ~'  ~(  ~(~  ~(~'  ~(e  ~(e~1  ~(~1  ~()  ~(~)
\* tokens  )  ~  *  1  z  e  d800  null  -  .
Heads ==
    {<<>>, <<126>>, <<126, 39>>, <<126, 40>>, <<126, 40, 126>>,
     <<126, 40, 126, 39>>, <<126, 40, 101>>, <<126, 40, 101, 126, 49>>,
     <<126, 40, 126, 49>>, <<126, 40, 41>>, <<126, 40, 126, 41>>}

Tokens ==
    {<<41>>, <<126>>, <<42>>, <<49>>, <<122>>, <<101>>, <<100, 56, 48, 48>>,
     KwNull, <<45>>, <<46>>}

RECURSIVE TokenSeqs(_)
TokenSeqs(n) ==
    IF n = 0 THEN {<<>>}
    ELSE LET S == TokenSeqs(n - 1)
         IN  S \cup {t \o u : t \in S, u \in Tokens}

Texts == {h \o t : h \in Heads, t \in TokenSeqs(MaxTail)}

Init ==
    /\ \/ /\ value \in Values
          /\ pc = "serialize"
          /\ chars = <<>>
       \/ /\ value = NoValue
          /\ pc = "parse_one"
          /\ chars \in Texts
    /\ output = <<>>
    /\ pos = 0
    /\ stack = <<>>
    /\ buf = <<>>
    /\ ret = Null
    /\ result = NoResult
    /\ lookahead = 0

Next ==
    \/ CallSerialize
    \/ parse_one
    \/ parse_array
    \/ parse_object
    \/ decode
    \/ parse_literal
    \/ deserialize

Spec == Init /\ [][Next]_vars

----------------------------------------------------------------------------
(* Properties *)

Done == pc = "done"
\* The run serializes value and parses the text back
RoundTrip == value # NoValue
Serialized == RoundTrip /\ pc # "serialize"

\* C1: round trip.  Whenever a value is serialized and the text deserialized,
\* deserialize returns Ok of a value equal to the one serialized.
C1_RoundTrip ==
    (Done /\ RoundTrip) => (result.tag = "Ok" /\ ValueEq(result.val, value))

\* C2: trailing input is rejected.  Whenever parse_one has returned a value
\* and at least one character is left, deserialize returns an error: not Ok,
\* not a panic.
C2_TrailingInputIsError ==
    [][(pc = "trailing" /\ pos < Len(chars))
          => (pc' = "done" /\ result'.tag = "Err")]_vars

\* The bare literal run of a text "~c..." : c and the characters after it up
\* to the next ~ or ) or the end
RECURSIVE RunEnd(_, _)
RunEnd(t, i) ==
    IF i > Len(t) \/ t[i] = CP.tilde \/ t[i] = CP.rparen THEN i - 1
    ELSE RunEnd(t, i + 1)

BareRun(t) == SubSeq(t, 2, RunEnd(t, 3))

IsBareText(t) ==
    /\ Len(t) >= 2
    /\ t[1] = CP.tilde
    /\ t[2] # CP.lparen
    /\ t[2] # CP.quote

\* C3: malformed top-level input.  Once deserialize is done: an empty text
\* and the text "~" gave UnexpectedEnd; a text not starting with ~ gave
\* UnexpectedCharacter of its first character, ~ expected; a text "~" and a
\* bare run that is none of null, true, false and no well-formed number gave
\* InvalidValue of exactly that run.
C3_MalformedTopLevel ==
    Done =>
       /\ (chars = <<>> \/ chars = <<CP.tilde>>) => result = UnexpectedEnd
       /\ (chars # <<>> /\ chars[1] # CP.tilde)
             => result = UnexpectedCharacter(chars[1], CP.tilde)
       /\ (/\ IsBareText(chars)
           /\ BareRun(chars) \notin {KwNull, KwTrue, KwFalse}
           /\ ~ParseNumber(BareRun(chars)).ok)
             => result = InvalidValue(BareRun(chars))

\* C3's case: a run that starts like a number and is none was rejected
C3_Witness ==
    /\ Done
    /\ IsBareText(chars)
    /\ Len(BareRun(chars)) >= 2
    /\ is_ascii_digit(chars[2])
    /\ result.err = "InvalidValue"

\* C4: string escape round trip.  Whenever the String of one character c is
\* serialized and the text deserialized, the result is Ok of that String.
C4_EscapeRoundTrip ==
    (Done /\ value[1] = "String" /\ Len(value[2]) = 1) => result = Ok(value)

\* The number of places where pat occurs in t
CountOcc(t, pat) ==
    Cardinality({i \in 1..Len(t) :
                    /\ i + Len(pat) - 1 <= Len(t)
                    /\ SubSeq(t, i, i + Len(pat) - 1) = pat})

\* The number of nodes of v that are the Array (kind "Array") or the Object
\* (kind "Object") with no element
RECURSIVE Empties(_, _)
Empties(v, kind) ==
    IF v[1] = "Array"
    THEN LET F[i \in 0..Len(v[2])] ==
                 IF i = 0 THEN 0 ELSE F[i - 1] + Empties(v[2][i], kind)
         IN  IF v[2] = <<>> THEN (IF kind = "Array" THEN 1 ELSE 0)
             ELSE F[Len(v[2])]
    ELSE IF v[1] = "Object"
    THEN LET F[i \in 0..Len(v[2])] ==
                 IF i = 0 THEN 0 ELSE F[i - 1] + Empties(v[2][i][2], kind)
         IN  IF v[2] = <<>> THEN (IF kind = "Object" THEN 1 ELSE 0)
             ELSE F[Len(v[2])]
    ELSE 0

TextEmptyArray == <<CP.tilde, CP.lparen, CP.tilde, CP.rparen>>
TextEmptyObject == <<CP.tilde, CP.lparen, CP.rparen>>

\* C5: empty containers.  serialize writes the empty array as ~(~) and the
\* empty object as ~(); at any depth the text holds "(~)" once per empty
\* array of the value and "()" once per empty object; the text ~(~) parses to
\* the empty Array and ~() to the empty Object; and a value parsed back from
\* a serialized one has as many empty arrays and as many empty objects.
C5_EmptyContainers ==
    /\ (Serialized /\ value = Array(<<>>)) => output = TextEmptyArray
    /\ (Serialized /\ value = Object(<<>>)) => output = TextEmptyObject
    /\ (Serialized /\ pc = "parse_one" /\ pos = 0) =>
          /\ CountOcc(output, <<CP.lparen, CP.tilde, CP.rparen>>)
                = Empties(value, "Array")
          /\ CountOcc(output, <<CP.lparen, CP.rparen>>) = Empties(value, "Object")
    /\ (Done /\ chars = TextEmptyArray) => result = Ok(Array(<<>>))
    /\ (Done /\ chars = TextEmptyObject) => result = Ok(Object(<<>>))
    /\ (Done /\ RoundTrip /\ result.tag = "Ok") =>
          /\ Empties(result.val, "Array") = Empties(value, "Array")
          /\ Empties(result.val, "Object") = Empties(value, "Object")

\* C5's case: an array holding both empty containers went through the codec
C5_Witness ==
    /\ Done
    /\ value = Array(<<Array(<<>>), Object(<<>>)>>)
    /\ result = Ok(value)

UrlSafe(c) ==
    \/ c \in 48..57
    \/ c \in 65..90
    \/ c \in 97..122
    \/ c \in {CP.dot, CP.underscore, CP.minus, CP.tilde, CP.lparen, CP.rparen,
              CP.quote, CP.star, CP.bang}

\* C6: URL-safe output.  Every character of the text serialize returns is an
\* ASCII letter, an ASCII digit or one of . _ - ~ ( ) ' * !
C6_UrlSafeOutput ==
    RoundTrip => \A i \in 1..Len(output) : UrlSafe(output[i])

\* C6's case: a String of a $ and a character outside ASCII was serialized
C6_Witness ==
    /\ Serialized
    /\ value[1] = "String"
    /\ \E i, j \in 1..Len(value[2]) :
          /\ value[2][i] = CP.dollar
          /\ value[2][j] > 127

\* C7: container kinds.  In the text of an Array the character after "~(" is
\* a ~, in the text of an Object it is not, and a serialized Object that
\* parses parses as an Object, a serialized Array as an Array.
C7_KindDisambiguation ==
    /\ (Serialized /\ value[1] = "Array") => output[3] = CP.tilde
    /\ (Serialized /\ value[1] = "Object") => output[3] # CP.tilde
    /\ (Done /\ RoundTrip /\ result.tag = "Ok" /\ value[1] \in {"Array", "Object"})
          => result.val[1] = value[1]

\* The `*` escape under the cursor of decode: the 2 or 4 characters it needs
EscapeAtCursor == pc = "decode" /\ peek(chars, pos) = CP.star
EscapeWidth == IF peekn(chars, pos, 1) = CP.star THEN 4 ELSE 2
EscapeFirst == IF peekn(chars, pos, 1) = CP.star THEN pos + 3 ELSE pos + 2
EscapeCutShort == EscapeFirst + EscapeWidth - 1 > Len(chars)
EscapeText == SubSeq(chars, EscapeFirst, EscapeFirst + EscapeWidth - 1)
EscapeNonHex == {i \in 1..EscapeWidth : ~is_ascii_hexdigit(EscapeText[i])}
EscapeIsSurrogate ==
    /\ EscapeNonHex = {}
    /\ from_str_radix(EscapeText) \in 55296..57343

\* C8: unexpected end of input.  Whenever the input has run out where
\* parse_one needs its ~ or the character after it, where the object loop
\* needs ~ or ) after a pair, or inside a `*` escape, deserialize returns
\* UnexpectedEnd.
C8_UnexpectedEnd ==
    [][(\/ pc = "parse_one" /\ pos >= Len(chars)
        \/ pc = "parse_one" /\ pos + 1 = Len(chars) /\ chars[pos + 1] = CP.tilde
        \/ pc = "object" /\ pos >= Len(chars)
        \/ EscapeAtCursor /\ EscapeCutShort)
          => (pc' = "done" /\ result' = UnexpectedEnd)]_vars

C10_SingleForwardPass ==
    /\ [][pos' >= pos]_vars
    /\ [](lookahead <= 2)
    /\ [][(pc \in {"decode", "literal"} /\ pc' = pc) => pos' > pos]_vars
    /\ [][(pc = "object" /\ pc' = "decode") => pos' > pos]_vars
    /\ [][(pc = "parse_one" /\ pc' # "done") => pos' > pos]_vars
    /\ [](Done => result.tag \in {"Ok", "Err"})

====
